---- MODULE Spec2Model ----
(***************************************************************************)
(* Model of the WYSIWYG editor core (src/src/core/Editor.ts) and of the    *)
(* placeholder decoration plugin (src/unnamed/part_000).                   *)
(*                                                                         *)
(* A document is a sequence of block nodes.  A block is a record           *)
(*   [type, text, kids]                                                    *)
(* where text is the length of the text of a textblock and kids the child  *)
(* textblocks of a container.  Positions are ProseMirror token positions:  *)
(* a textblock has size 2 + text, a container 2 + the size of its kids.    *)
(***************************************************************************)
EXTENDS Integers, Sequences, FiniteSets, TLC

\* ---------------------------------------------------------------- bounds
MaxSize == 5        \* largest document content size explored
MaxText == 1        \* longest text of one textblock
MaxDepth == 2       \* deepest nesting of dispatchTransaction calls (callback re-entry)
MaxDispatch == 2    \* transactions dispatched to one editor
MaxUploads == 2     \* calls of the uploader callback of createImageNode

\* ---------------------------------------------------------------- schema
NoPlaceholder == [kind |-> "none"]

TextblockTypes == {"paragraph", "title", "custom", "code"}
ContainerTypes == {"note"}
TopTypes == {"paragraph", "title", "custom", "note"}
KidTypes == {"title", "code"}

\* node.type.spec.placeholder of each node type of the schema
PlaceholderSpec(type) ==
    CASE type = "paragraph" -> [kind |-> "own", alwaysVisible |-> FALSE, customPlugin |-> FALSE]
      [] type = "title"     -> [kind |-> "own", alwaysVisible |-> TRUE, customPlugin |-> FALSE]
      [] type = "note"      -> [kind |-> "own", alwaysVisible |-> FALSE, customPlugin |-> FALSE]
      [] type = "custom"    -> [kind |-> "own", alwaysVisible |-> FALSE, customPlugin |-> TRUE]
      [] OTHER              -> NoPlaceholder

hasPlaceholder(type) == PlaceholderSpec(type) # NoPlaceholder

\* getPlaceholderContent(node, parent): the content of the type's placeholder
\* spec, a string or a function of (node, parent) that may return null ("").
\* The paragraph has a placeholder at the top level only, the title has none
\* inside a note
getPlaceholderContent(node, parent) ==
    CASE node.type = "paragraph" -> IF parent = "doc" THEN "Empty row" ELSE ""
      [] node.type = "title"     -> IF parent = "note" THEN "" ELSE "Title"
      [] node.type = "note"      -> "Note"
      [] OTHER                   -> ""

\* ---------------------------------------------------------------- documents
Textblock(type, text) == [type |-> type, text |-> text, kids |-> <<>>]

isTextblock(n) == n.type \in TextblockTypes

RECURSIVE KidsSize(_)
KidsSize(kids) ==
    IF kids = <<>> THEN 0 ELSE 2 + Head(kids).text + KidsSize(Tail(kids))

nodeSize(n) == IF isTextblock(n) THEN 2 + n.text ELSE 2 + KidsSize(n.kids)

RECURSIVE ContentSize(_)
ContentSize(nodes) ==
    IF nodes = <<>> THEN 0 ELSE nodeSize(Head(nodes)) + ContentSize(Tail(nodes))

\* node.childCount: a textblock holds its text as one text node
childCount(n) == IF isTextblock(n) THEN (IF n.text > 0 THEN 1 ELSE 0) ELSE Len(n.kids)

KidSeqs ==
    { ks \in UNION { [1..k -> { Textblock(t, x) : t \in KidTypes, x \in 0..MaxText }]
                     : k \in 1..2 } : 2 + KidsSize(ks) <= MaxSize }

Blocks ==
    { Textblock(t, x) : t \in TopTypes \ ContainerTypes, x \in 0..MaxText }
      \cup { [type |-> "note", text |-> 0, kids |-> ks] : ks \in KidSeqs }

Docs ==
    { d \in UNION { [1..k -> Blocks] : k \in 1..(MaxSize \div 2) } : ContentSize(d) <= MaxSize }


\* ---------------------------------------------------------------- positions
Null == -1          \* null / undefined position

\* doc.descendants order (pre-order): [pos, node, parent, depth], parent being
\* the type of the parent node ("doc" for a top-level block)
RECURSIVE Flatten(_, _, _, _)
Flatten(nodes, pos, parent, depth) ==
    IF nodes = <<>> THEN <<>>
    ELSE LET n == Head(nodes) IN
         <<[pos |-> pos, node |-> n, parent |-> parent, depth |-> depth]>>
           \o Flatten(n.kids, pos + 1, n.type, depth + 1)
           \o Flatten(Tail(nodes), pos + nodeSize(n), parent, depth)

Descendants(doc) == Flatten(doc, 0, "doc", 1)

Range(seq) == { seq[i] : i \in DOMAIN seq }

\* the nodes a resolved position lies inside (ResolvedPos.node(1..depth))
AncestorsAt(doc, q) ==
    { e \in Range(Descendants(doc)) : e.pos < q /\ q < e.pos + nodeSize(e.node) }

\* positions with inline content around them: where a text cursor can be
TextPositions(doc) ==
    { q \in 0..ContentSize(doc) :
        \E e \in Range(Descendants(doc)) :
            isTextblock(e.node) /\ e.pos + 1 <= q /\ q <= e.pos + 1 + e.node.text }

\* selection: kind "cursor" (collapsed TextSelection), "range" (TextSelection
\* with from < to) or "node" (NodeSelection / AllSelection); from is $from.pos
Selections(doc) ==
    { [kind |-> "cursor", from |-> q] : q \in TextPositions(doc) }
      \cup { [kind |-> "range", from |-> q] :
               q \in { r \in TextPositions(doc) : \E t \in TextPositions(doc) : t > r } }
      \cup { [kind |-> "node", from |-> e.pos] : e \in Range(Descendants(doc)) }

\* Selection.atStart(doc): the selection of a freshly created state
AtStart(doc) == [kind |-> "cursor", from |-> CHOOSE q \in TextPositions(doc) :
                                               \A r \in TextPositions(doc) : q <= r]

\* ---------------------------------------------------------------- placeholder plugin
\* isNodeEmpty(node): neither the node nor a descendant holds text
isNodeEmpty(node) ==
    node.text = 0 /\ \A k \in DOMAIN node.kids : node.kids[k].text = 0

alwaysVisible(type) == hasPlaceholder(type) /\ PlaceholderSpec(type).alwaysVisible

customPlugin(type) == hasPlaceholder(type) /\ PlaceholderSpec(type).customPlugin

\* findChildren(node, n => Boolean(n.type.spec.placeholder?.alwaysVisible))
childrenWithPlaceholderVisible(node) ==
    { k \in DOMAIN node.kids : alwaysVisible(node.kids[k].type) }

placeholderNeededIgnoreChildren(node) == isNodeEmpty(node)

\* isNodeEmpty(node) && !childrenWithPlaceholderVisible.length

placeholderNeeded(node) ==
    isNodeEmpty(node) /\ childrenWithPlaceholderVisible(node) = {}

\* createPlaceholder: the DOM element, or null when there is no content
NoDOM == [content |-> "", focus |-> FALSE]

PlaceholderDOM(content, focus) ==
    IF content = "" THEN NoDOM ELSE [content |-> content, focus |-> focus]

createPlaceholder(node, parent, focus) ==
    PlaceholderDOM(getPlaceholderContent(node, parent), focus)

\* a PluginKey stored in the widgetsMap
PluginKeyEntry == [isKey |-> TRUE, pos |-> Null, toDOM |-> NoDOM,
                   spec |-> [focus |-> FALSE], forNode |-> Null]

\* a WidgetSpec stored in the widgetsMap; forNode records the position of the
\* node the widget was built for
WidgetSpec(dp, placeholderDOM, pos) ==
    [isKey |-> FALSE, pos |-> dp, toDOM |-> placeholderDOM,
     spec |-> [focus |-> placeholderDOM.focus], forNode |-> pos]

decorationPosition(node, pos) == pos + childCount(node) + 1

Put(map, k, v) == [x \in DOMAIN map \cup {k} |-> IF x = k THEN v ELSE map[x]]

putWidgetNoFocus(acc, dp, placeholderDOM, pos) ==
    IF placeholderDOM = NoDOM THEN acc
    ELSE [acc EXCEPT !.widgetsMap = Put(@, dp, WidgetSpec(dp, placeholderDOM, pos))]

\* the end of addDecoration: store the widget, note the focus
putWidget(acc, dp, placeholderDOM, pos) ==
    IF placeholderDOM = NoDOM THEN acc
    ELSE [widgetsMap |-> Put(acc.widgetsMap, dp, WidgetSpec(dp, placeholderDOM, pos)),
          hasFocus |-> acc.hasFocus \/ placeholderDOM.focus]

\* addDecoration, dp being decorationPosition; acc = [widgetsMap, hasFocus]
\* holds the caller's widgetsMap and globalState
addDecorationAt(acc, node, pos, parent, cursorPos, dp) ==
    IF ~hasPlaceholder(node.type) \/ dp \in DOMAIN acc.widgetsMap THEN acc
    ELSE IF customPlugin(node.type)
         THEN [acc EXCEPT !.widgetsMap = Put(@, dp, PluginKeyEntry)]
         ELSE putWidget(acc, dp, createPlaceholder(node, parent, dp = cursorPos), pos)

addDecoration(acc, node, pos, parent, cursorPos) ==
    addDecorationAt(acc, node, pos, parent, cursorPos, decorationPosition(node, pos))

decorateNodeAnyPlaceholder(acc, e, cursorPos) ==
    IF placeholderNeeded(e.node)
    THEN addDecoration(acc, e.node, e.pos, e.parent, cursorPos)
    ELSE acc

\* the decorate callback given to state.doc.descendants
decorateNode(acc, e, cursorPos) ==
    IF alwaysVisible(e.node.type) /\ placeholderNeeded(e.node)
    THEN addDecoration(acc, e.node, e.pos, e.parent, cursorPos)
    ELSE acc

\* state.doc.descendants(decorate)
RECURSIVE decorate(_, _, _)
decorate(entries, acc, cursorPos) ==
    IF entries = <<>> THEN acc
    ELSE decorate(Tail(entries), decorateNode(acc, Head(entries), cursorPos), cursorPos)

\* findParentNodeClosestToPos($from, node => Boolean(node.type.spec.placeholder)):
\* the set holding the deepest such ancestor, empty when there is none
Deepest(cands) == { e \in cands : \A o \in cands : o.depth <= e.depth }

findParentNodeClosestToPos(doc, q) ==
    Deepest({ e \in AncestorsAt(doc, q) : hasPlaceholder(e.node.type) })

\* isTextSelection(selection) ? selection.$cursor?.pos : null
cursorPosOf(selection) == IF selection.kind = "cursor" THEN selection.from ELSE Null

\* the placeholder in the place of the cursor
decorateParent(acc, parentNode, cursorPos) ==
    IF parentNode # {}
       /\ \A e \in parentNode : placeholderNeeded(e.node) /\ ~alwaysVisible(e.node.type)
    THEN addDecoration(acc, (CHOOSE e \in parentNode : TRUE).node,
                       (CHOOSE e \in parentNode : TRUE).pos,
                       (CHOOSE e \in parentNode : TRUE).parent, cursorPos)
    ELSE acc

\* Object.values(widgetsMap).filter(not a PluginKey)
widgetSpecsOf(acc) ==
    [widgetSpecs |-> { acc.widgetsMap[p] : p \in { x \in DOMAIN acc.widgetsMap :
                                                     ~acc.widgetsMap[x].isKey } },
     hasFocus |-> acc.hasFocus]

\* the widgetsMap after the decorations of the custom placeholder plugins
customKeys(custom) == [widgetsMap |-> [p \in custom |-> PluginKeyEntry], hasFocus |-> FALSE]

\* state = [doc, selection, custom, placeholder]; custom is the set of spec.pos
\* of the decorations of the custom placeholder plugins, as far as visible
getPlaceholderWidgetSpecs(state) ==
    widgetSpecsOf(
        decorateParent(
            decorate(Descendants(state.doc), customKeys(state.custom),
                     cursorPosOf(state.selection)),
            findParentNodeClosestToPos(state.doc, state.selection.from),
            cursorPosOf(state.selection)))

\* Decoration.widget(pos, toDOM, spec); fresh marks an object created by the
\* call that produced the plugin state, as opposed to one carried over
Widget(w) == [pos |-> w.pos, toDOM |-> w.toDOM, spec |-> w.spec, fresh |-> TRUE]

\* DecorationSet.create(doc, widgetSpecs.map(Decoration.widget))
pluginStateOf(specs) ==
    [decorationSet |-> { Widget(w) : w \in specs.widgetSpecs }, hasFocus |-> specs.hasFocus]

initState(state) == pluginStateOf(getPlaceholderWidgetSpecs(state))

\* ---------------------------------------------------------------- position mapping
\* StepMap: a sequence of ranges [start, oldSize, newSize]; StepMap.mapResult
\* with assoc = 1 (the side of a widget decoration with side >= 0)
RECURSIVE StepMapResult(_, _, _, _)
StepMapResult(ranges, i, diff, pos) ==
    IF i > Len(ranges) \/ ranges[i].start > pos
    THEN [pos |-> pos + diff, deleted |-> FALSE]
    ELSE IF pos <= ranges[i].start + ranges[i].oldSize
         THEN [pos |-> ranges[i].start + diff
                         + (IF ranges[i].oldSize # 0 /\ pos = ranges[i].start
                            THEN 0 ELSE ranges[i].newSize),
               deleted |-> pos # ranges[i].start + ranges[i].oldSize]
         ELSE StepMapResult(ranges, i + 1,
                            diff + ranges[i].newSize - ranges[i].oldSize, pos)

ThenDeleted(first, rest) == [pos |-> rest.pos, deleted |-> first \/ rest.deleted]

\* Mapping.mapResult: through every step map in turn, deleted if any deleted
RECURSIVE mapResult(_, _)
mapResult(maps, pos) ==
    IF maps = <<>> THEN [pos |-> pos, deleted |-> FALSE]
    ELSE ThenDeleted(StepMapResult(Head(maps), 1, 0, pos).deleted,
                     mapResult(Tail(maps), StepMapResult(Head(maps), 1, 0, pos).pos))

\* DecorationSet.map(mapping, doc): widgets follow their position, those whose
\* position was deleted are dropped; what is left was not created by this call
DecorationSetMap(decorationSet, maps) ==
    { [d EXCEPT !.pos = mapResult(maps, d.pos).pos, !.fresh = FALSE] :
        d \in { x \in decorationSet : ~mapResult(maps, x.pos).deleted } }

\* DecorationSet.find(pos, pos)
find(decorationSet, pos) == { d \in decorationSet : d.pos = pos }

\* lodash isEqual on two decoration specs
isEqual(a, b) == a = b

\* ---------------------------------------------------------------- applyState
didNotChangeNever(deco, w) == FALSE

\* deco.length && isEqual(deco[0].spec, spec)
didNotChange(deco, w) ==
    deco # {} /\ isEqual((CHOOSE d \in deco : TRUE).spec, w.spec)

\* widgetSpecs.reduce(...): the remapped old decorations found at the position
\* of a desired widget, when the first one found has an equal spec
decorationsThatDidNotChange(widgetSpecs, oldMappedSet) ==
    UNION { { d \in find(oldMappedSet, w.pos) : didNotChange(find(oldMappedSet, w.pos), w) } :
            w \in widgetSpecs }

newAddedDecorationsAll(widgetSpecs, kept) == widgetSpecs

\* widgetSpecs.filter(pos not among the decorations that did not change)
newAddedDecorations(widgetSpecs, kept) ==
    { w \in widgetSpecs : w.pos \notin { d.pos : d \in kept } }

newDecorationSetKeepOld(oldMappedSet, kept, added) ==
    oldMappedSet \cup { Widget(w) : w \in added }

\* newSet: oldMappedSet without the not relevant decorations, with the added
newDecorationSet(oldMappedSet, kept, added) ==
    (oldMappedSet \ (oldMappedSet \ kept)) \cup { Widget(w) : w \in added }

diffKept(specs, oldMappedSet, kept) ==
    [decorationSet |-> newDecorationSet(oldMappedSet, kept,
                                        newAddedDecorations(specs.widgetSpecs, kept)),
     hasFocus |-> specs.hasFocus]

diff(specs, oldMappedSet) ==
    diffKept(specs, oldMappedSet, decorationsThatDidNotChange(specs.widgetSpecs, oldMappedSet))

applyState(tr, oldPluginState, newState) ==
    diff(getPlaceholderWidgetSpecs(newState),
         DecorationSetMap(oldPluginState.decorationSet, tr.mapping))

\* ---------------------------------------------------------------- transactions
RECURSIVE ReplaceNode(_, _, _, _)
ReplaceNode(nodes, base, pos, nn) ==
    IF nodes = <<>> THEN <<>>
    ELSE LET n == Head(nodes) IN
         IF base = pos THEN <<nn>> \o Tail(nodes)
         ELSE IF base < pos /\ pos < base + nodeSize(n)
              THEN <<[n EXCEPT !.kids = ReplaceNode(n.kids, base + 1, pos, nn)]>> \o Tail(nodes)
              ELSE <<n>> \o ReplaceNode(Tail(nodes), base + nodeSize(n), pos, nn)

StepRange(start, oldSize, newSize) ==
    [start |-> start, oldSize |-> oldSize, newSize |-> newSize]

Step(doc, ranges) == [doc |-> doc, map |-> ranges]

\* tr.insertText at a position of a textblock: ReplaceStep(q, q, text)
InsertTextSteps(doc) ==
    UNION { { Step(ReplaceNode(doc, 0, e.pos, [e.node EXCEPT !.text = @ + 1]),
                   <<StepRange(q, 0, 1)>>) :
                q \in (e.pos + 1)..(e.pos + 1 + e.node.text) } :
            e \in { x \in Range(Descendants(doc)) :
                      isTextblock(x.node) /\ x.node.text < MaxText
                        /\ ContentSize(doc) < MaxSize } }

\* tr.delete of one character: ReplaceStep(q, q + 1, empty)
DeleteTextSteps(doc) ==
    UNION { { Step(ReplaceNode(doc, 0, e.pos, [e.node EXCEPT !.text = @ - 1]),
                   <<StepRange(q, 1, 0)>>) :
                q \in (e.pos + 1)..(e.pos + e.node.text) } :
            e \in { x \in Range(Descendants(doc)) : isTextblock(x.node) /\ x.node.text > 0 } }

\* tr.setNodeMarkup(pos, type) on a textblock: a ReplaceAroundStep that
\* replaces the opening and the closing token and keeps the content
SetNodeMarkupSteps(doc) ==
    UNION { { Step(ReplaceNode(doc, 0, e.pos, [e.node EXCEPT !.type = t]),
                   <<StepRange(e.pos, 1, 1), StepRange(e.pos + 1 + e.node.text, 1, 1)>>) :
                t \in (IF e.depth = 1 THEN TopTypes \ ContainerTypes ELSE KidTypes)
                        \ {e.node.type} } :
            e \in { x \in Range(Descendants(doc)) : isTextblock(x.node) } }

StartOf(doc, i) == ContentSize(SubSeq(doc, 1, i - 1))

InsertAt(doc, i, nb) == SubSeq(doc, 1, i - 1) \o <<nb>> \o SubSeq(doc, i, Len(doc))

RemoveAt(doc, i) == SubSeq(doc, 1, i - 1) \o SubSeq(doc, i + 1, Len(doc))

\* the blocks a command inserts
NewBlocks == { Textblock("paragraph", 0), Textblock("title", 0) }

\* tr.insert(pos, block) between top-level blocks: ReplaceStep(pos, pos, block)
InsertBlockSteps(doc) ==
    { Step(InsertAt(doc, i, nb), <<StepRange(StartOf(doc, i), 0, nodeSize(nb))>>) :
        i \in 1..(Len(doc) + 1),
        nb \in { b \in NewBlocks : ContentSize(doc) + nodeSize(b) <= MaxSize } }

\* tr.delete of a whole top-level block (the document keeps at least one)
DeleteBlockSteps(doc) ==
    { Step(RemoveAt(doc, i), <<StepRange(StartOf(doc, i), nodeSize(doc[i]), 0)>>) :
        i \in { j \in 1..Len(doc) : Len(doc) > 1 } }

EmptyDoc == <<Textblock("paragraph", 0)>>

\* parser.parse(markup) of the markups given to clear / replace: empty markup,
\* the markup of the current document, one line of text
Markups(doc) == { EmptyDoc, doc, <<Textblock("paragraph", 1)>> }

\* the full-document replace of clear / replace: ReplaceStep(0, size, content)
ReplaceAllSteps(doc) ==
    { Step(nd, <<StepRange(0, ContentSize(doc), ContentSize(nd))>>) : nd \in Markups(doc) }

Steps(doc) ==
    InsertTextSteps(doc) \cup DeleteTextSteps(doc) \cup SetNodeMarkupSteps(doc)
      \cup InsertBlockSteps(doc) \cup DeleteBlockSteps(doc) \cup ReplaceAllSteps(doc)

\* Transaction: tr.mapping.maps, tr.doc, tr.selection; tr.docChanged is
\* Transform.docChanged, steps.length > 0
Transaction(maps, doc, selection) ==
    [mapping |-> maps, doc |-> doc, selection |-> selection, docChanged |-> Len(maps) > 0]

Transactions(state) ==
    { Transaction(<<>>, state.doc, sel) : sel \in Selections(state.doc) }
      \cup UNION { { Transaction(<<s.map>>, s.doc, sel) : sel \in Selections(s.doc) } :
                   s \in Steps(state.doc) }


\* ---------------------------------------------------------------- editor
VARIABLES
    state,          \* view.state: [doc, selection, custom, placeholder]
    composed,       \* the plugin list ExtensionsManager.process returned
    plugins,        \* the plugin list given to EditorState.create
    modifiers,      \* the modifiers option
    dynamicModifiers,   \* the dynamicModifiers given to ExtensionsManager.process
    onChange,       \* TRUE when the onChange option was supplied
    onDocChange,    \* TRUE when the onDocChange option was supplied
    stack,          \* the dispatchTransaction calls in progress, innermost last
    dispatched,     \* the number of transactions dispatched so far
    op,             \* the operation that dispatched the latest transaction, and
                    \* the markup it was given
    last,           \* the latest applyState call: the number of steps of tr, and
                    \* the old decorations that match a desired one after remapping
    changes,        \* the number of times the onChange callback was invoked
    thrown,         \* the number of exceptions the callbacks threw
    logged,         \* the number of console.error calls
    lastResult,     \* the result of the latest state.apply(tr)
    inOrder,        \* every transaction so far was applied to lastResult
    uncaught,       \* an exception escaped a dispatchTransaction call
    upload          \* the calls of the callback createImageNode returns: the
                    \* running one, and what all of them did so far

vars == <<state, composed, plugins, modifiers, dynamicModifiers, onChange, onDocChange, stack, dispatched, op, last,
          changes, thrown, logged, lastResult, inOrder, uncaught, upload>>

LoggerFacet == "logger"

\* what the extensions compose: the placeholder plugin and a custom
\* placeholder plugin, in either order
ComposedLists == { <<"placeholder", "custom">>, <<"custom", "placeholder">> }

constructorPluginsPush(list) == list \o <<LoggerFacet>>

\* plugins.unshift(LoggerFacet.of(logger))
constructorPlugins(list) == <<LoggerFacet>> \o list

IndexOf(seq, x) == CHOOSE i \in DOMAIN seq : seq[i] = x

\* a plugin's init and apply see the state of the plugins before it
CustomVisible(list) == IndexOf(list, "custom") < IndexOf(list, "placeholder")

DecorationPositions(doc) ==
    { decorationPosition(e.node, e.pos) : e \in Range(Descendants(doc)) }

\* the states the custom placeholder plugin can be in, as the placeholder
\* plugin sees them: the spec.pos of its decorations
CustomStates(list, doc) ==
    IF CustomVisible(list)
    THEN {{}} \cup { {p} : p \in DecorationPositions(doc) }
    ELSE {{}}

NoPluginState == [decorationSet |-> {}, hasFocus |-> FALSE]

EditorState(doc, selection, custom) ==
    [doc |-> doc, selection |-> selection, custom |-> custom, placeholder |-> NoPluginState]

initField(partial) == [partial EXCEPT !.placeholder = initState(partial)]

\* EditorState.create({schema, doc, plugins})
createState(doc, custom) == initField(EditorState(doc, AtStart(doc), custom))

applyField(partial, tr, oldPluginState) ==
    [partial EXCEPT !.placeholder = applyState(tr, oldPluginState, partial)]

\* this.state.apply(tr)
apply(st, tr, custom) ==
    applyField(EditorState(tr.doc, tr.selection, custom), tr, st.placeholder)

NoApply == [steps |-> 0, matched |-> {}, intact |-> TRUE]

applyStateLeavesRemapped(tr, oldPluginState, newState) ==
    [tr |-> tr,
     oldPluginState |-> [oldPluginState EXCEPT
                           !.decorationSet = DecorationSetMap(@, tr.mapping)]]

\* the arguments of applyState after the call: tr.mapping and tr.doc are
\* read, decorationSet.map / find / remove / add return new sets, hasFocus is
\* read from the new widget specs, nothing is assigned to tr or oldPluginState
applyStateLeaves(tr, oldPluginState, newState) ==
    [tr |-> tr, oldPluginState |-> oldPluginState]

Unmutated(tr, oldPluginState, left) ==
    left.tr = tr /\ left.oldPluginState = oldPluginState

\* an old decoration as remapped by the transaction, with where it was
Remapped(d, maps) ==
    [deco |-> [d EXCEPT !.pos = mapResult(maps, d.pos).pos, !.fresh = FALSE], was |-> d.pos]

\* what applyState(tr, oldPluginState, _, newState) was called on: the old
\* decorations that survive the remapping and have the position and the spec
\* of a widget desired in newState
Applied(tr, oldPluginState, newState) ==
    [steps |-> Len(tr.mapping),
     intact |-> Unmutated(tr, oldPluginState, applyStateLeaves(tr, oldPluginState, newState)),
     matched |-> { Remapped(d, tr.mapping) :
                     d \in { x \in oldPluginState.decorationSet :
                               /\ ~mapResult(tr.mapping, x.pos).deleted
                               /\ \E w \in getPlaceholderWidgetSpecs(newState).widgetSpecs :
                                     /\ w.pos = mapResult(tr.mapping, x.pos).pos
                                     /\ w.spec = x.spec } }]

NoOp == [name |-> "none", markup |-> ""]

\* ---------------------------------------------------------------- createImageNode
NoNode == [src |-> "", alt |-> "", sizes |-> {}]

\* no call of the uploader callback yet
NoUpload ==
    [pc |-> "idle", started |-> 0, needDimensions |-> FALSE,
     enableNewImageSizeCalculation |-> FALSE, named |-> FALSE, loaded |-> FALSE,
     failed |-> FALSE, created |-> 0, revoked |-> 0, failures |-> 0,
     globalErrors |-> 0, loggerErrors |-> 0, node |-> NoNode]

\* attrs: src is result.url, alt is result.name ?? file.name
createImageNodeAttrs(named) ==
    [src |-> "result.url", alt |-> IF named THEN "result.name" ELSE "file.name",
     sizes |-> {}]

\* getImageSize gives a height, getImageSizeNew a width and a height
getImageSizes(enableNew) == IF enableNew THEN {"width", "height"} ELSE {"height"}

\* the call starts: the options of createImageNode and the uploaded item
startUpload(u, needDimensions, enableNew, named) ==
    [u EXCEPT !.started = @ + 1, !.needDimensions = needDimensions,
              !.enableNewImageSizeCalculation = enableNew, !.named = named,
              !.loaded = FALSE, !.failed = FALSE,
              !.node = createImageNodeAttrs(named)]

\* loadImage: img.src = URL.createObjectURL(imgFile)
loadImage(u) == [u EXCEPT !.pc = "loading", !.loaded = TRUE, !.created = @ + 1]

\* return imgType.create(attrs)
imgTypeCreate(u) == [u EXCEPT !.pc = "done"]

\* img.onerror: reject(error)
onerror(u) == [u EXCEPT !.pc = "thrown", !.failures = @ + 1]

\* img.onload: URL.revokeObjectURL(img.src); resolve(img)
onload(u) == [u EXCEPT !.pc = "loaded", !.revoked = @ + 1]

\* Object.assign(attrs, sizes)
assignSizes(u) ==
    [u EXCEPT !.node = [@ EXCEPT !.sizes = getImageSizes(u.enableNewImageSizeCalculation)]]

catchErrorGlobalOnly(u) == [u EXCEPT !.failed = TRUE, !.globalErrors = @ + 1]

\* catch (err) { globalLogger.error(err); logger.error({error: err}) }
catchError(u) ==
    [u EXCEPT !.failed = TRUE, !.globalErrors = @ + 1, !.loggerErrors = @ + 1]

\* the uploader callback is called; with needDimensions it awaits loadImage,
\* without it returns the node
Upload ==
    /\ upload.pc \in {"idle", "done"}
    /\ upload.started < MaxUploads
    /\ \E needDimensions \in BOOLEAN, enableNew \in BOOLEAN, named \in BOOLEAN :
          upload' = IF needDimensions
                    THEN loadImage(startUpload(upload, needDimensions, enableNew, named))
                    ELSE imgTypeCreate(startUpload(upload, needDimensions, enableNew, named))
    /\ UNCHANGED <<state, composed, plugins, modifiers, dynamicModifiers, onChange,
                   onDocChange, stack, dispatched, op, last, changes, thrown, logged,
                   lastResult, inOrder, uncaught>>

UploadStep(next) ==
    /\ upload' = next
    /\ UNCHANGED <<state, composed, plugins, modifiers, dynamicModifiers, onChange,
                   onDocChange, stack, dispatched, op, last, changes, thrown, logged,
                   lastResult, inOrder, uncaught>>

\* the image loads
ImgOnLoad == upload.pc = "loading" /\ UploadStep(onload(upload))

\* the image does not load
ImgOnError == upload.pc = "loading" /\ UploadStep(onerror(upload))

\* the size function returns; the node gets the sizes
SizeComputed == upload.pc = "loaded" /\ UploadStep(imgTypeCreate(assignSizes(upload)))

\* getImageSizeNew throws (getProportionalSize); the awaited promise is rejected
SizeFails ==
    /\ upload.pc = "loaded"
    /\ upload.enableNewImageSizeCalculation
    /\ UploadStep([upload EXCEPT !.pc = "thrown", !.failures = @ + 1])

\* the await throws into the catch block; the node is created without sizes
Caught == upload.pc = "thrown" /\ UploadStep(imgTypeCreate(catchError(upload)))

Undefined == [kind |-> "undefined", len |-> 0]

\* a modifiers option: an array of len modifier configs
ModifierList(len) == [kind |-> "list", len |-> len]

ModifierOptions == {Undefined, ModifierList(0), ModifierList(1)}

\* convertDynamicModifiersConfigs(modifiers): the converted config
convertDynamicModifiersConfigs(mods) == [kind |-> "config", len |-> mods.len]

constructorDynamicModifiersConfigNonEmpty(mods) ==
    IF mods # Undefined /\ mods.len > 0 THEN convertDynamicModifiersConfigs(mods) ELSE Undefined

\* modifiers ? convertDynamicModifiersConfigs(modifiers) : undefined
\* (an array is truthy, the empty one too)
constructorDynamicModifiersConfig(mods) ==
    IF mods # Undefined THEN convertDynamicModifiersConfigs(mods) ELSE Undefined

\* dynamicModifiersConfig ? {schema: new SchemaDynamicModifier(...), parser:
\* ..., serializer: ...} : undefined
constructorDynamicModifiers(config) ==
    IF config # Undefined THEN [kind |-> "modifiers", len |-> config.len] ELSE Undefined

\* new WysiwygEditor({initialContent, modifiers, onChange, onDocChange, ...})
\* with parser.parse(initialContent) among docs, the callbacks among cbs and
\* the modifiers option among mods
Construct(docs, cbs, mods) ==
    /\ modifiers \in mods
    /\ dynamicModifiers = constructorDynamicModifiers(constructorDynamicModifiersConfig(modifiers))
    /\ composed \in ComposedLists
    /\ plugins = constructorPlugins(composed)
    /\ onChange \in cbs
    /\ onDocChange \in cbs
    /\ \E doc \in docs : \E c \in CustomStates(plugins, doc) : state = createState(doc, c)
    /\ stack = <<>>
    /\ dispatched = 0
    /\ op = NoOp
    /\ last = NoApply
    /\ changes = 0
    /\ thrown = 0
    /\ logged = 0
    /\ lastResult = state
    /\ inOrder = TRUE
    /\ uncaught = FALSE
    /\ upload = NoUpload

\* the editor with the default initialContent = '' and any callbacks
Init == Construct({EmptyDoc}, BOOLEAN, {Undefined})

\* the editor on any initial content, without callbacks
InitPlugin == Construct(Docs, {FALSE}, {Undefined})

\* the editor with the default content, without callbacks, with any
\* modifiers option
InitModifiers == Construct({EmptyDoc}, {FALSE}, ModifierOptions)

\* editor.isEmpty(): one child, a paragraph, without children
isEmptyIgnoreChildren(doc) == Len(doc) = 1 /\ doc[1].type = "paragraph"

isEmptyAnyType(doc) == Len(doc) = 1 /\ childCount(doc[1]) = 0

isEmpty(doc) ==
    Len(doc) = 1 /\ doc[1].type = "paragraph" /\ childCount(doc[1]) = 0

\* ---------------------------------------------------------------- dispatchTransaction
\* one dispatchTransaction call: the flags of its transaction, the callback
\* it is in, whether view.state still is its newState, what its callbacks
\* were given and did
Frame(tr, st) ==
    [docChanged |-> tr.docChanged, treeChanged |-> tr.doc # st.doc, pc |-> "start",
     op |-> "dispatch",
     current |-> TRUE, changeCalls |-> 0, docChangeCalls |-> 0,
     changeSaw |-> FALSE, docChangeSaw |-> FALSE,
     changeThrew |-> FALSE, docChangeThrew |-> FALSE, changeDispatched |-> FALSE]

updateStateSkipped(viewState, newState) == viewState

\* this.updateState(newState): the view.state after it
updateState(viewState, newState) == newState

handlerNotifyFirst(viewState, newState) ==
    [newState |-> newState, viewState |-> updateState(viewState, newState),
     seen |-> viewState]

\* this.updateState(newState); thisOnChange(): the view.state the handler
\* leaves, and the view.state the onChange callback is given to read
handler(viewState, newState) ==
    [newState |-> newState, viewState |-> updateState(viewState, newState),
     seen |-> updateState(viewState, newState)]

\* const newState = this.state.apply(tr); ...
dispatchTransaction(st, tr, custom) == handler(st, apply(st, tr, custom))

docChangeDueAlways(frame) == TRUE

\* if (tr.docChanged) thisOnDocChange()
docChangeDue(frame) == frame.docChanged

\* thisOnDocChange(), or the end of the handler
enterOnDocChange(frame, supplied) ==
    IF docChangeDue(frame) /\ supplied
    THEN [frame EXCEPT !.pc = "onDocChange", !.docChangeCalls = @ + 1,
                       !.docChangeSaw = frame.current]
    ELSE [frame EXCEPT !.pc = "done"]

enterOnChangeSkipped(frame, supplied, sawOwn) == frame

\* thisOnChange()
enterOnChange(frame, supplied, sawOwn) ==
    IF supplied
    THEN [frame EXCEPT !.pc = "onChange", !.changeCalls = @ + 1, !.changeSaw = sawOwn]
    ELSE frame

\* the handler from thisOnChange() up to the first callback that runs
firstCallback(entered, docChangeSupplied) ==
    IF entered.pc = "onChange" THEN entered ELSE enterOnDocChange(entered, docChangeSupplied)

tryOnChangeNoCatch(threw) == [caught |-> ~threw, logged |-> 0]

\* tryOnChange: try { cb(this) } catch (err) { console.error(err) }
tryOnChange(threw) == [caught |-> TRUE, logged |-> IF threw THEN 1 ELSE 0]

\* the running calls when a callback dispatches: the one whose change
\* callback is running is marked
Reentered(frames) ==
    [i \in DOMAIN frames |->
        [frames[i] EXCEPT !.changeDispatched = @ \/ frames[i].pc = "onChange"]]

SupersededNever(frames) == frames

\* the running calls after updateState of a later transaction: view.state no
\* longer is their newState
Superseded(frames) == [i \in DOMAIN frames |-> [frames[i] EXCEPT !.current = FALSE]]

Push(frames, frame) == IF frame.pc = "done" THEN frames ELSE Append(frames, frame)

Commit(r, entered, applied) ==
    /\ state' = r.viewState
    /\ last' = applied
    /\ lastResult' = r.newState
    /\ inOrder' = (inOrder /\ state = lastResult)
    /\ stack' = Push(Superseded(Reentered(stack)), firstCallback(entered, onDocChange))
    /\ changes' = changes + entered.changeCalls
    /\ dispatched' = dispatched + 1

Handle(r, frame, applied) ==
    Commit(r, enterOnChange(frame, onChange, r.seen = r.newState), applied)

Tagged(frame, name) == [frame EXCEPT !.op = name]

\* view.dispatch(tr) of one of the transactions trs by the operation name,
\* from outside or from inside a running callback, up to the first callback
\* it invokes
DispatchOf(trs, name, markup) ==
    /\ Len(stack) < MaxDepth
    /\ dispatched < MaxDispatch
    /\ ~uncaught
    /\ \E tr \in trs : \E c \in CustomStates(plugins, tr.doc) :
         Handle(dispatchTransaction(state, tr, c), Tagged(Frame(tr, state), name),
                Applied(tr, state.placeholder, EditorState(tr.doc, tr.selection, c)))
    /\ op' = [name |-> name, markup |-> markup]
    /\ UNCHANGED <<composed, plugins, modifiers, dynamicModifiers, onChange, onDocChange,
                   thrown, logged, uncaught, upload>>

\* a transaction of a command, a key press or a selection change
Dispatch == DispatchOf(Transactions(state), "dispatch", "")

\* ---------------------------------------------------------------- content operations
\* the markups given to replace / prepend / append
MarkupStrings == {"", "x", "# "}

\* parser.parse(markup): no markup gives the empty document, a line of text
\* a paragraph, a bare heading mark a title without text
parse(markup) ==
    CASE markup = "x"  -> <<Textblock("paragraph", 1)>>
      [] markup = "# " -> <<Textblock("title", 0)>>
      [] OTHER         -> EmptyDoc

\* one full-document replace: ReplaceStep(0, doc.content.size, content),
\* the selection at the start of the new document
FullReplace(doc, content) ==
    { Transaction(<<<<StepRange(0, ContentSize(doc), ContentSize(content))>>>>,
                  content, AtStart(content)) :
        c \in { x \in {content} : ContentSize(x) <= MaxSize } }

\* contentHandler.clear()
clear(doc) == FullReplace(doc, parse(""))

\* contentHandler.replace(newMarkup)
replace(doc, newMarkup) == FullReplace(doc, parse(newMarkup))

\* contentHandler.prepend(markup)
prepend(doc, markup) == FullReplace(doc, parse(markup) \o doc)

\* contentHandler.append(markup)
append(doc, markup) == FullReplace(doc, doc \o parse(markup))

\* editor.clear()
CallClear == DispatchOf(clear(state.doc), "clear", "")

\* editor.replace(newMarkup)
CallReplace == \E m \in MarkupStrings : DispatchOf(replace(state.doc, m), "replace", m)

\* editor.prepend(markup)
CallPrepend == \E m \in MarkupStrings : DispatchOf(prepend(state.doc, m), "prepend", m)

\* editor.append(markup)
CallAppend == \E m \in MarkupStrings : DispatchOf(append(state.doc, m), "append", m)

Top == stack[Len(stack)]

Rest == SubSeq(stack, 1, Len(stack) - 1)

\* the frame after its running callback ended, threw telling how
noted(frame, threw) ==
    IF frame.pc = "onChange"
    THEN [frame EXCEPT !.changeThrew = threw]
    ELSE [frame EXCEPT !.docChangeThrew = threw]

\* the handler after a callback: thisOnDocChange() or its end
afterCallback(frame, wasIn, docChangeSupplied) ==
    IF wasIn = "onChange" THEN enterOnDocChange(frame, docChangeSupplied)
    ELSE [frame EXCEPT !.pc = "done"]

Resume(t, threw) ==
    IF t.caught
    THEN /\ stack' = Push(Rest, afterCallback(noted(Top, threw), Top.pc, onDocChange))
         /\ logged' = logged + t.logged
         /\ UNCHANGED uncaught
    ELSE /\ stack' = Rest
         /\ logged' = logged + t.logged
         /\ uncaught' = TRUE

\* the running callback returns (threw = FALSE) or throws; the handler goes
\* on to its next callback or to its end
Finish(threw) ==
    /\ stack # <<>>
    /\ Resume(tryOnChange(threw), threw)
    /\ thrown' = thrown + (IF threw THEN 1 ELSE 0)
    /\ UNCHANGED <<state, composed, plugins, modifiers, dynamicModifiers, onChange,
                   onDocChange, dispatched, op, last,
                   changes, lastResult, inOrder, upload>>

CallbackReturns == Finish(FALSE)

CallbackThrows == Finish(TRUE)

Next == Dispatch \/ CallbackReturns \/ CallbackThrows

Spec == Init /\ [][Next]_vars

\* the placeholder plugin alone: transactions applied to an editor that has
\* no callbacks
SpecPlugin == InitPlugin /\ [][Dispatch]_vars

\* editors constructed with each modifiers option, then used
SpecModifiers == InitModifiers /\ [][Dispatch]_vars

NextImage == Upload \/ ImgOnLoad \/ ImgOnError \/ SizeComputed \/ SizeFails \/ Caught

\* the uploader callback of createImageNode, called up to MaxUploads times
SpecImage == Init /\ [][NextImage]_vars

NextContent ==
    Dispatch \/ CallClear \/ CallReplace \/ CallPrepend \/ CallAppend \/ CallbackReturns \/ CallbackThrows

\* the editor with its content operations, called from outside or from inside
\* a callback
SpecContent == Init /\ [][NextContent]_vars

\* ---------------------------------------------------------------- properties
Frames == { stack[i] : i \in DOMAIN stack }

Decorations == state.placeholder.decorationSet

Desired == getPlaceholderWidgetSpecs(state).widgetSpecs

\* C1 as stated: the document-change callback is invoked only for a
\* transaction whose document tree after it differs from the tree before it
C1_DocChangeOnlyIfTreeDiffers ==
    \A f \in Frames : f.docChangeCalls > 0 => f.treeChanged

\* C1 amended: the document-change callback is invoked only for a transaction
\* that holds at least one step (tr.docChanged); a transaction without steps,
\* such as a selection-only one, never invokes it, and it is invoked at most
\* once per transaction
C1_DocChangeOnlyIfSteps ==
    \A f \in Frames : /\ f.docChangeCalls > 0 => f.docChanged
                      /\ f.docChangeCalls <= 1

\* the document-change callback runs for a transaction whose step left the
\* tree as it was
C1_Witness ==
    \E f \in Frames : f.pc = "onDocChange" /\ f.docChanged /\ ~f.treeChanged

\* C2: with a change callback supplied, every dispatched transaction invokes
\* it exactly once, and the surface state the callback reads is the result of
\* applying that transaction
C2_ChangeOncePostState ==
    onChange => /\ changes = dispatched
                /\ \A f \in Frames : f.changeCalls = 1 /\ f.changeSaw

\* the change callback of a second, document-changing transaction is running
C2_Witness ==
    /\ onChange
    /\ dispatched >= 2
    /\ \E f \in Frames : f.pc = "onChange" /\ f.treeChanged /\ f.changeSaw

\* C3: an exception of either callback is caught and logged, the surface
\* state stays the result of the transaction, no exception leaves dispatch,
\* and the document-change callback of a transaction with steps is still
\* invoked after its change callback threw
C3_CallbackThrowContained ==
    /\ ~uncaught
    /\ logged = thrown
    /\ state = lastResult
    /\ \A f \in Frames :
          (f.changeThrew /\ f.docChanged /\ onDocChange) => f.docChangeCalls = 1

\* the change callback threw and the document-change callback of the same
\* transaction is running
C3_Witness ==
    /\ thrown > 0
    /\ \E f \in Frames : f.changeThrew /\ f.pc = "onDocChange" /\ f.docChangeCalls = 1

\* C4: every transaction is applied to the state the previously dispatched
\* transaction produced (plugin state included), also when it is dispatched
\* from inside a callback of another transaction
C4_AppliedInDispatchOrder ==
    inOrder /\ state = lastResult

\* a transaction dispatched from inside a callback of another one
C4_Witness ==
    /\ Len(stack) = 2
    /\ dispatched >= 2
    /\ stack[1].treeChanged
    /\ stack[2].treeChanged

\* C5 as stated: the plugin list given to the editing surface is the composed
\* plugin list, nothing added, removed or reordered
C5_PluginsVerbatim == plugins = composed

\* C5 amended: the plugin list given to the editing surface is the composed
\* plugin list, in its order, behind one plugin the editor adds in front:
\* the logger facet
C5_PluginsBehindLogger ==
    /\ Len(plugins) = Len(composed) + 1
    /\ Head(plugins) = LoggerFacet
    /\ Tail(plugins) = composed

\* the editor was constructed from a composed list that starts with the
\* custom placeholder plugin
C5_Witness ==
    /\ dispatched = 0
    /\ Head(composed) = "custom"
    /\ plugins[2] = "custom"

\* C6: a previous decoration that survives the remapping and has the position
\* and the spec of a desired widget is in the new plugin state, remapped, and
\* no newly created decoration is at its position
C6_DecorationStability ==
    \A m \in last.matched :
        /\ m.deco \in Decorations
        /\ \A d \in Decorations : d.pos = m.deco.pos => ~d.fresh

\* a transaction with a step moved a previous decoration, which was kept
C6_Witness ==
    /\ last.steps > 0
    /\ \E m \in last.matched : m.was # m.deco.pos /\ m.deco \in Decorations

\* C7: after applyState the (position, focus) pairs of the decoration set are
\* those of the widgets desired in the new state, the ones initState builds
C7_DecorationsAreDesired ==
    dispatched > 0 =>
        /\ { <<d.pos, d.spec.focus>> : d \in Decorations }
             = { <<w.pos, w.spec.focus>> : w \in Desired }
        /\ { <<d.pos, d.spec.focus>> : d \in Decorations }
             = { <<d.pos, d.spec.focus>> : d \in initState(state).decorationSet }

\* after a transaction with a step, the decoration set holds a kept and a
\* newly created decoration
C7_Witness ==
    /\ dispatched > 0
    /\ last.steps > 0
    /\ \E d \in Decorations : d.fresh
    /\ \E d \in Decorations : ~d.fresh

\* C8 as stated: after every transaction each decoration has the position, the
\* focus flag and the placeholder content of a desired widget
C8_PayloadIsDesired ==
    \A d \in Decorations :
        \E w \in Desired : w.pos = d.pos /\ w.spec = d.spec /\ w.toDOM = d.toDOM

\* C9: the decoration set holds at most one decoration per position
C9_OneDecorationPerPosition ==
    \A d1 \in Decorations : \A d2 \in Decorations : d1.pos = d2.pos => d1 = d2

\* after two transactions the decoration set holds two decorations, one kept
C9_Witness ==
    /\ dispatched >= 2
    /\ Cardinality(Decorations) >= 2
    /\ \E d \in Decorations : ~d.fresh

NodesAt(pos) == { e \in Range(Descendants(state.doc)) : e.pos = pos }

\* C10: a widget is desired only for a node that holds no text, has no child
\* of a type with an always-visible placeholder, has a type that does not
\* delegate to a custom plugin, and has no decoration of the custom plugin at
\* its decoration position; every decoration is at the position of such a widget
C10_NoCompetingPlaceholder ==
    /\ \A w \in Desired : \A e \in NodesAt(w.forNode) :
          /\ e.node.text = 0
          /\ \A k \in DOMAIN e.node.kids : e.node.kids[k].text = 0
          /\ \A k \in DOMAIN e.node.kids :
                ~PlaceholderSpec(e.node.kids[k].type).kind = "own"
                  \/ ~PlaceholderSpec(e.node.kids[k].type).alwaysVisible
          /\ ~PlaceholderSpec(e.node.type).customPlugin
          /\ w.pos = e.pos + childCount(e.node) + 1
          /\ w.pos \notin state.custom
    /\ \A w \in Desired : NodesAt(w.forNode) # {}
    /\ \A d \in Decorations : \E w \in Desired : w.pos = d.pos

\* after a transaction the selection is in an empty note whose child has an
\* always-visible placeholder, and the note has no decoration
C10_Witness ==
    /\ dispatched > 0
    /\ \E e \in findParentNodeClosestToPos(state.doc, state.selection.from) :
          /\ e.node.type = "note"
          /\ isNodeEmpty(e.node)
          /\ childrenWithPlaceholderVisible(e.node) # {}
          /\ decorationPosition(e.node, e.pos) \notin { d.pos : d \in Decorations }

C12_IsEmptyIffOneEmptyParagraph ==
    isEmpty(state.doc) <=> state.doc = <<[type |-> "paragraph", text |-> 0, kids |-> <<>>]>>

\* after a transaction the document is a single childless title, and isEmpty()
\* is false
C12_Witness ==
    /\ dispatched > 0
    /\ Len(state.doc) = 1
    /\ state.doc[1].type = "title"
    /\ state.doc[1].text = 0
    /\ ~isEmpty(state.doc)

ContentOps == {"clear", "replace", "prepend", "append"}

\* C13: isEmpty() is true after construction without initial content, false
\* after append, prepend or replace with a markup that does not parse to the
\* empty document, and true after clear(), whatever came before
C13_IsEmptyFollowsContent ==
    /\ dispatched = 0 => isEmpty(state.doc)
    /\ op.name = "clear" => isEmpty(state.doc)
    /\ (op.name \in {"append", "prepend", "replace"} /\ parse(op.markup) # parse(""))
          => ~isEmpty(state.doc)

\* clear() was called from inside a callback of an append that changed the
\* document, and emptied it
C13_Witness ==
    /\ op.name = "clear"
    /\ isEmpty(state.doc)
    /\ \E f \in Frames : f.op = "append" /\ f.treeChanged

\* C14: a call of clear / replace / prepend / append dispatches one
\* transaction, which invokes the change callback exactly once (when one was
\* supplied) and the document-change callback at most once
C14_ContentOpNotifiesOnce ==
    /\ \A f \in Frames :
          f.op \in ContentOps =>
              /\ f.changeCalls = (IF onChange THEN 1 ELSE 0)
              /\ f.docChangeCalls <= 1
              /\ f.docChanged
    /\ onChange => changes = dispatched

\* the document-change callback of an append is running after its change
\* callback ran
C14_Witness ==
    \E f \in Frames :
        f.op = "append" /\ f.pc = "onDocChange" /\ f.changeCalls = 1 /\ f.docChangeCalls = 1

C16_CallbacksInTransactionOrder ==
    \A f \in Frames : /\ f.changeCalls > 0 => f.changeSaw
                      /\ f.docChangeCalls > 0 => f.docChangeSaw

\* C16 amended: the change callback of a transaction is invoked before any
\* later transaction is applied and observes its own result; the
\* document-change callback is invoked before any later transaction and
\* observes its own result exactly when the change callback of the same
\* transaction did not dispatch; every callback observes the latest result
C16_DocChangeAfterNestedDispatch ==
    /\ \A f \in Frames : /\ f.changeCalls > 0 => f.changeSaw
                         /\ f.docChangeCalls > 0 => (f.docChangeSaw <=> ~f.changeDispatched)
    /\ state = lastResult

\* the document-change callback of a transaction is running after its change
\* callback dispatched another transaction, whose callbacks have run
C16_Witness ==
    /\ dispatched >= 2
    /\ \E f \in Frames :
          f.pc = "onDocChange" /\ f.changeDispatched /\ ~f.docChangeSaw /\ f.docChangeCalls = 1

Focused == { d \in Decorations : d.spec.focus }

\* C17: hasFocus is true exactly when a decoration has focus = true; such a
\* decoration is at the position of the collapsed text cursor, there is at
\* most one, and without a collapsed text cursor there is none and hasFocus
\* is false
C17_HasFocusIffFocusedDecoration ==
    /\ state.placeholder.hasFocus <=> Focused # {}
    /\ \A d \in Focused : state.selection.kind = "cursor" /\ d.pos = state.selection.from
    /\ \A d1 \in Focused : \A d2 \in Focused : d1 = d2
    /\ state.selection.kind # "cursor" => (~state.placeholder.hasFocus /\ Focused = {})

\* after a transaction with a step, a focused decoration was kept and
\* hasFocus is true
C17_Witness ==
    /\ dispatched > 0
    /\ last.steps > 0
    /\ state.placeholder.hasFocus
    /\ \E d \in Focused : ~d.fresh

\* the desired widgets of nodes whose placeholder is not always visible
CursorWidgets ==
    { w \in Desired : \E e \in NodesAt(w.forNode) : ~alwaysVisible(e.node.type) }

\* C18: at most one decoration belongs to a node whose placeholder is not
\* always visible; that node is the closest ancestor of the selection start
\* that declares a placeholder, and it holds no text; the decorations are at
\* the positions of the desired widgets
C18_OneCursorPlaceholder ==
    /\ \A w1 \in CursorWidgets : \A w2 \in CursorWidgets : w1 = w2
    /\ \A w \in CursorWidgets : \A e \in NodesAt(w.forNode) :
          /\ e \in findParentNodeClosestToPos(state.doc, state.selection.from)
          /\ e.node.text = 0
          /\ \A k \in DOMAIN e.node.kids : e.node.kids[k].text = 0
    /\ { d.pos : d \in Decorations } = { w.pos : w \in Desired }

\* a selection-only transaction moved the cursor from the first to the second
\* of two empty paragraphs: the first has no decoration, the second a new one
C18_Witness ==
    /\ dispatched = 1
    /\ last.steps = 0
    /\ state.doc = <<Textblock("paragraph", 0), Textblock("paragraph", 0)>>
    /\ state.selection = [kind |-> "cursor", from |-> 3]
    /\ \E d \in Decorations : d.pos = 3 /\ d.fresh
    /\ \A d \in Decorations : d.pos # 1

\* C19: the uploader callback never rejects and ends with a node whose src is
\* result.url and whose alt is result.name, or file.name without one; without
\* needDimensions the image is not loaded; a failure of the load or of the
\* size computation is reported to the global logger and to the supplied
\* logger, and the node then has no size attributes
C19_ImageNodeAlwaysCreated ==
    /\ upload.failed => upload.pc = "done"
    /\ upload.pc = "done" =>
          /\ upload.node.src = "result.url"
          /\ upload.node.alt = (IF upload.named THEN "result.name" ELSE "file.name")
          /\ upload.failed => upload.node.sizes = {}
          /\ upload.globalErrors = upload.failures
          /\ upload.loggerErrors = upload.failures
    /\ (upload.started > 0 /\ ~upload.needDimensions) =>
          (~upload.loaded /\ upload.pc = "done" /\ upload.node.sizes = {})

\* a call with needDimensions ended after the load failed, with a node
\* without sizes, after an earlier call
C19_Witness ==
    /\ upload.pc = "done"
    /\ upload.needDimensions
    /\ upload.failed
    /\ upload.started = 2
    /\ upload.node.sizes = {}
    /\ upload.loggerErrors > 0

\* C20 as stated: when a call of the uploader callback has ended, every
\* object URL loadImage created has been revoked, whether the load succeeded
\* or failed
C20_ObjectUrlRevoked ==
    upload.pc \in {"loaded", "thrown", "done"} => upload.revoked = upload.created

====
